---------------------------- MODULE Spec2Model ----------------------------
(***************************************************************************)
(* Model of examples/StereoDepth/stereo_depth_from_host.py:                *)
(*   - calculate_err_measures (the disparity evaluator), lines 747-801     *)
(*   - read_pfm (the PFM loader), lines 713-745                            *)
(*   - the command-line checks at start-up, lines 14-66                    *)
(*   - StereoConfigHandler, its construction and the end of the main     *)
(*     loop, lines 68-529, 629 and 971-979                                 *)
(*                                                                         *)
(* Numbers.  Pixel values are float32 disparities.  The model keeps them   *)
(* as integers counting halves (0.5 is 1, 1.0 is 2, ...), which float32    *)
(* adds and subtracts exactly, and keeps +infinity as the value Inf.       *)
(* Report fields are float64; the model keeps them as exact fractions      *)
(* n/d, or as NaN / +infinity where IEEE division gives those.             *)
(***************************************************************************)
EXTENDS Integers, Sequences, FiniteSets, TLC

VARIABLES
    arr,        \* the numpy arrays alive in the caller: ref -> [shape, data]
    args,       \* the references passed to the last call: [gt, oak]
    outcome,    \* how the last call of calculate_err_measures ended
    report,     \* the dict it returned
    loc,        \* the locals n and invalid of that call
    arr0,       \* arr as it was when that call was entered
    file,       \* the PFM file read_pfm is given
    pfm,        \* how the last call of read_pfm ended
    argv,       \* the command line: the tokens of -p, of -e, and --download
    fs,         \* the paths that exist in the file system
    pc,         \* the statement of the script that runs next
    cli_args,   \* the namespace parse_args returned (args in the script)
    evaluation_mode,    \* the global of line 26
    raised,     \* the exception that stopped the script
    config,     \* StereoConfigHandler.config
    newConfig,  \* StereoConfigHandler.newConfig
    censusMaskHandler,  \* StereoConfigHandler.censusMaskHandler
    deviceConfig,       \* the config of the last message the device was sent
    last,       \* the latest call of handleKeypress, as it went
    loop,       \* the main loop: running, left by break or by an exception,
                \* or "start" before the handler is constructed
    events,     \* the keys, slider moves and clicks so far
    moved,      \* the latest trackbar callback, as it went
    clicked     \* the latest click on the census mask, as it went

evalVars == <<arr, args, outcome, report, loc, arr0>>
pfmVars == <<file, pfm>>
startVars == <<argv, fs, pc, cli_args, evaluation_mode, raised>>
cfgVars ==
    <<config, newConfig, censusMaskHandler, deviceConfig, last, loop, events,
      moved, clicked>>
vars ==
    <<arr, args, outcome, report, loc, arr0, file, pfm,
      argv, fs, pc, cli_args, evaluation_mode, raised,
      config, newConfig, censusMaskHandler, deviceConfig, last, loop, events,
      moved, clicked>>

---------------------------------------------------------------------------
(* Bounds of the model *)

\* the largest number of pixels (height * width) of an input map
MaxPixels == 2

\* the largest number of whole 4-byte values in a PFM file's payload
MaxWords == 4

\* the largest number of keys pressed, sliders moved and clicks made
MaxEvents == 2

---------------------------------------------------------------------------
(* Floating-point values *)

\* np.inf in a pixel; every finite pixel value of the model is below it
Inf == 1000

\* the thresholds 0.5, 1., 2., 4. of lines 761-764, in halves
Thr05 == 1
Thr1 == 2
Thr2 == 4
Thr4 == 8

\* the finite pixel values the inputs are drawn from, in halves:
\* their differences 1, 2, 3, 6, 8, 9 fall on and between every threshold
PixelVals == {0, 1, 3, 9}

Num(n, d) == [k |-> "num", n |-> n, d |-> d]
NaN == [k |-> "nan", n |-> 0, d |-> 1]
PosInf == [k |-> "inf", n |-> 0, d |-> 1]
Undef == [k |-> "none", n |-> 0, d |-> 1]

\* float division a / b of a non-negative a by a non-negative integer b:
\* numpy warns and gives nan for 0/0 and inf for a/0, it does not raise
FDiv(a, b) ==
    IF b = 0 THEN (IF a = 0 THEN NaN ELSE PosInf) ELSE Num(a, b)

Abs(x) == IF x < 0 THEN -x ELSE x


---------------------------------------------------------------------------
(* calculate_err_measures, step by step *)

Pixels(a) == 1..Len(a.data)


\* a slip: the sizes compared in place of the shapes
SameSize(gt, oak) == Len(gt.data) = Len(oak.data)

\* gt_img.shape == oak_img.shape, the assert of line 748
SameShape(gt, oak) == gt.shape = oak.shape


\* a slip: == in place of !=
IsInfMask(a) == [i \in Pixels(a) |-> a.data[i] = Inf]

\* img != np.inf, elementwise (lines 750, 751)
NotInfMask(a) == [i \in Pixels(a) |-> a.data[i] # Inf]

\* gt_mask & oak_mask (line 752)
MaskAnd(m1, m2) == [i \in DOMAIN m1 |-> m1[i] /\ m2[i]]


\* a slip: the ~ forgotten
MaskAndNotForgotten(m1, m2) == [i \in DOMAIN m1 |-> m1[i] /\ m2[i]]

\* gt_mask & ~oak_mask (line 759)
MaskAndNot(m1, m2) == [i \in DOMAIN m1 |-> m1[i] /\ ~m2[i]]


\* a slip: img[m] = 0. in place of img[~m] = 0.
ZeroInside(a, m) ==
    [a EXCEPT !.data = [i \in Pixels(a) |-> IF m[i] THEN 0 ELSE a.data[i]]]

\* img[~m] = 0., in place (lines 754, 755)
ZeroOutside(a, m) ==
    [a EXCEPT !.data = [i \in Pixels(a) |-> IF ~m[i] THEN 0 ELSE a.data[i]]]

\* one element of gt_img - oak_img in IEEE arithmetic: a difference with
\* an infinite operand is not finite
Diff(x, y) == IF x = Inf \/ y = Inf THEN Inf ELSE Abs(x - y)

\* np.abs(gt_img - oak_img) (line 756)
AbsErr(gt, oak) == [i \in Pixels(gt) |-> Diff(gt.data[i], oak.data[i])]

\* np.sum of a boolean array (lines 758, 759)
CountTrue(m) == Cardinality({i \in DOMAIN m : m[i]})


\* a slip: >= in place of >
BadGe(mask, err, t) == Cardinality({i \in DOMAIN mask : mask[i] /\ err[i] >= t})

\* a slip: < in place of >
BadBelow(mask, err, t) == Cardinality({i \in DOMAIN mask : mask[i] /\ err[i] < t})

\* np.sum(mask & (err > t)) (lines 761-764)
Bad(mask, err, t) == Cardinality({i \in DOMAIN mask : mask[i] /\ err[i] > t})

\* err[mask]: the selected elements, in index order (lines 765-767)
RECURSIVE Select(_, _, _)
Select(err, mask, i) ==
    IF i > Len(err) THEN <<>>
    ELSE (IF mask[i] THEN <<err[i]>> ELSE <<>>) \o Select(err, mask, i + 1)

RECURSIVE SumSeq(_)
SumSeq(s) == IF s = <<>> THEN 0 ELSE Head(s) + SumSeq(Tail(s))

\* np.sum(err[mask]) (line 765), in halves
SumErr(errs) == SumSeq(errs)

\* np.sum(err[mask] ** 2) (line 766), in quarters
SumSqErr(errs) == SumSeq([i \in 1..Len(errs) |-> errs[i] * errs[i]])


\* a slip: the factor 100. forgotten
Fraction(count, n) == FDiv(count, n)

\* 100. * count / n (lines 769-777)
Percent(count, n) == FDiv(100 * count, n)

\* sum_err / (n - invalid) (line 778); the sum is in halves
AvgErr(sum, cnt) == FDiv(sum, Thr1 * cnt)

\* sum_sq_err / (n - invalid) (line 779); the sum is in quarters
Mse(sum, cnt) == FDiv(sum, Thr1 * Thr1 * cnt)

\* np.percentile(errs, p) of a non-empty array: linear interpolation
\* between the closest ranks of the sorted values, at rank p/100 * (k-1)
Percentile(errs, p) ==
    LET s == SortSeq(errs, LAMBDA x, y : x < y)
        k == Len(s)
        pos == p * (k - 1)
        lo == (pos \div 100) + 1
        hi == IF lo < k THEN lo + 1 ELSE k
        frac == pos % 100
    IN  IF k = 0 THEN NaN
        ELSE Num(100 * s[lo] + frac * (s[hi] - s[lo]), 100 * Thr1)

Fields ==
    {"bad0.5", "total_bad0.5", "bad1", "total_bad1", "bad2", "total_bad2",
     "bad4", "total_bad4", "invalid", "avg_err", "mse",
     "a50", "a90", "a95", "a99"}

NoReport == [f \in Fields |-> Undef]
NoLoc == [n |-> 0, invalid |-> 0]

\* the dict of lines 785-801, from the locals of lines 758-783
MakeReport(n, invalid, mask, err, errs) ==
    [f \in Fields |->
        CASE f = "bad0.5" -> Percent(Bad(mask, err, Thr05), n)
          [] f = "total_bad0.5" -> Percent(Bad(mask, err, Thr05) + invalid, n)
          [] f = "bad1" -> Percent(Bad(mask, err, Thr1), n)
          [] f = "total_bad1" -> Percent(Bad(mask, err, Thr1) + invalid, n)
          [] f = "bad2" -> Percent(Bad(mask, err, Thr2), n)
          [] f = "total_bad2" -> Percent(Bad(mask, err, Thr2) + invalid, n)
          [] f = "bad4" -> Percent(Bad(mask, err, Thr4), n)
          [] f = "total_bad4" -> Percent(Bad(mask, err, Thr4) + invalid, n)
          [] f = "invalid" -> Percent(invalid, n)
          [] f = "avg_err" -> AvgErr(SumErr(errs), n - invalid)
          [] f = "mse" -> Mse(SumSqErr(errs), n - invalid)
          [] f = "a50" -> Percentile(errs, 50)
          [] f = "a90" -> Percentile(errs, 90)
          [] f = "a95" -> Percentile(errs, 95)
          [] f = "a99" -> Percentile(errs, 99)]

\* the arrays after lines 754 and 755: gt_img[~gt_mask] = 0. first, then
\* oak_img[~mask] = 0. on what the first store left (g and o may be the
\* same array)
AfterZeroing(a, g, o) ==
    LET gt_mask == NotInfMask(a[g])
        mask == MaskAnd(gt_mask, NotInfMask(a[o]))
        a1 == [a EXCEPT ![g] = ZeroOutside(a[g], gt_mask)]
    IN  [a1 EXCEPT ![o] = ZeroOutside(a1[o], mask)]

\* calculate_err_measures(gt_img, oak_img) called with the arrays g and o.
\*  - shapes differ: the assert of line 748 raises, nothing else has run;
\*  - otherwise lines 750-779 run; no division raises;
\*  - np.percentile of an empty errs (line 780) depends on the numpy
\*    release: it returns nan, or raises from its indexing of the empty
\*    array; both are outcomes here.
calculate_err_measures(g, o) ==
    /\ args' = [gt |-> g, oak |-> o]
    /\ arr0' = arr
    /\ IF ~SameShape(arr[g], arr[o])
       THEN /\ outcome' = "AssertionError"
            /\ UNCHANGED arr
            /\ report' = NoReport
            /\ loc' = NoLoc
       ELSE LET gt_mask == NotInfMask(arr[g])
                oak_mask == NotInfMask(arr[o])
                mask == MaskAnd(gt_mask, oak_mask)
                a2 == AfterZeroing(arr, g, o)
                err == AbsErr(a2[g], a2[o])
                n == CountTrue(gt_mask)
                invalid == CountTrue(MaskAndNot(gt_mask, oak_mask))
                errs == Select(err, mask, 1)
            IN  /\ arr' = a2
                /\ loc' = [n |-> n, invalid |-> invalid]
                /\ \/ /\ outcome' = "returned"
                      /\ report' = MakeReport(n, invalid, mask, err, errs)
                   \/ /\ errs = <<>>
                      /\ outcome' = "PercentileError"
                      /\ report' = NoReport
    /\ UNCHANGED <<pfmVars, startVars, cfgVars>>

---------------------------------------------------------------------------
(* read_pfm *)

(* The file is its three header lines, each a sequence of one-byte         *)
(* strings without the newline that ends it, then the payload: whole       *)
(* 4-byte words, each a tuple of byte values in file order, and 0 to 3     *)
(* trailing bytes.  Byte80 stands for a byte above 127.                    *)

Byte80 == "0x80"

DigitChars == <<"0", "1", "2", "3", "4", "5", "6", "7", "8", "9">>
IsDigit(c) == \E i \in 1..10 : DigitChars[i] = c
DigitVal(c) == (CHOOSE i \in 1..10 : DigitChars[i] = c) - 1

\* the bytes bytes.rstrip() and float() strip, and the str pattern \s
\* matches, among the bytes of the model
IsSpace(c) == c \in {" ", "\t", "\n", "\r"}

IsAscii(line) == \A i \in 1..Len(line) : line[i] # Byte80

\* a slip: the line taken as it was read, nothing stripped
KeepLine(line) == line

\* bytes.rstrip() (lines 722, 736)
RECURSIVE RStrip(_)
RStrip(line) ==
    IF line # <<>> /\ IsSpace(line[Len(line)])
    THEN RStrip(SubSeq(line, 1, Len(line) - 1))
    ELSE line

RECURSIVE LStrip(_)
LStrip(line) ==
    IF line # <<>> /\ IsSpace(line[1]) THEN LStrip(Tail(line)) ELSE line

\* int() of a run of decimal digits (line 732)
RECURSIVE ParseInt(_)
ParseInt(ds) ==
    IF ds = <<>> THEN 0
    ELSE 10 * ParseInt(SubSeq(ds, 1, Len(ds) - 1)) + DigitVal(ds[Len(ds)])

\* the last index of the run of digits that starts at i
RECURSIVE RunEnd(_, _)
RunEnd(line, i) ==
    IF i < Len(line) /\ IsDigit(line[i + 1]) THEN RunEnd(line, i + 1) ELSE i

\* re.search(r"(\d+)\s(\d+)", line) (line 730): the leftmost place where a
\* run of digits, taken whole, is followed by one whitespace character and
\* a digit; the groups are that run and the whole run after the whitespace
DimSearch(line) ==
    LET matches(i) ==
            /\ IsDigit(line[i])
            /\ RunEnd(line, i) + 2 <= Len(line)
            /\ IsSpace(line[RunEnd(line, i) + 1])
            /\ IsDigit(line[RunEnd(line, i) + 2])
        starts == {i \in 1..Len(line) : matches(i)}
    IN  IF starts = {} THEN [found |-> FALSE, g1 |-> <<>>, g2 |-> <<>>]
        ELSE LET i == CHOOSE x \in starts : \A y \in starts : x <= y
                 j == RunEnd(line, i)
             IN  [found |-> TRUE,
                  g1 |-> SubSeq(line, i, j),
                  g2 |-> SubSeq(line, j + 2, RunEnd(line, j + 2))]

\* float() of the stripped scale line (line 736), on the bytes of the
\* model (digits, sign, point, whitespace, "x", Byte80): surrounding
\* whitespace is dropped, then an optional sign and digits with at most
\* one point and at least one digit; anything else is a ValueError.
\* The value is sign * mant / 10^frac; neg keeps the sign of -0.0.
ParseFloat(line) ==
    LET t == LStrip(RStrip(line))
        signed == t # <<>> /\ t[1] \in {"+", "-"}
        r == IF signed THEN Tail(t) ELSE t
        points == {i \in 1..Len(r) : r[i] = "."}
        digits == SelectSeq(r, IsDigit)
        ok == /\ \A i \in 1..Len(r) : IsDigit(r[i]) \/ r[i] = "."
              /\ Cardinality(points) <= 1
              /\ digits # <<>>
    IN  IF ~ok THEN [ok |-> FALSE, neg |-> FALSE, mant |-> 0, frac |-> 0]
        ELSE [ok |-> TRUE,
              neg |-> (signed /\ t[1] = "-"),
              mant |-> ParseInt(digits),
              frac |-> IF points = {} THEN 0
                       ELSE Len(r) - (CHOOSE i \in points : TRUE)]

\* scale < 0 (line 737): -0.0 is not below 0
IsNegative(x) == x.neg /\ x.mant > 0

\* a slip: the byte order of the header ignored, every word read with the
\* first byte of the file as the lowest
DecodeWordNative(w, endian) ==
    w[1] + 256 * w[2] + 65536 * w[3] + 16777216 * w[4]

\* one float32 read by np.fromfile in the byte order given (line 743),
\* kept as its 32 bits: "<" takes the first byte of the file as the lowest
DecodeWord(w, endian) ==
    IF endian = "<"
    THEN w[1] + 256 * w[2] + 65536 * w[3] + 16777216 * w[4]
    ELSE w[4] + 256 * w[3] + 65536 * w[2] + 16777216 * w[1]

\* np.fromfile(file, endian + "f") (line 743): every whole item up to the
\* end of the file; bytes after the last whole item are left unread
FromFile(f, endian) ==
    [i \in 1..Len(f.words) |-> DecodeWord(f.words[i], endian)]

\* a slip: the header's order, width first, kept for the shape
ShapeWidthFirst(color, height, width) ==
    IF color THEN <<width, height, 3>> ELSE <<width, height>>

\* shape = (height, width, 3) if color else (height, width) (line 744)
Shape(color, height, width) ==
    IF color THEN <<height, width, 3>> ELSE <<height, width>>

\* a slip: the rows left in the order of the file
ReshapeOnly(data, height, width, chans) ==
    [r \in 1..height |->
        [c \in 1..(width * chans) |->
            data[(r - 1) * width * chans + c]]]

\* np.flip(np.reshape(data, shape), axis=0) (line 745): row r of the
\* result is row height - 1 - r of the row-major data
FlipReshape(data, height, width, chans) ==
    [r \in 1..height |->
        [c \in 1..(width * chans) |->
            data[(height - r) * width * chans + c]]]

NoFile ==
    [magic |-> <<>>, dims |-> <<>>, scale |-> <<>>, words |-> <<>>, extra |-> 0]
NoScale == [ok |-> FALSE, neg |-> FALSE, mant |-> 0, frac |-> 0]
NoPfm ==
    [status |-> "none", handle |-> "none", shape |-> <<>>, rows |-> <<>>,
     scale |-> NoScale]

\* an exit by a raised exception: nothing is returned, and the file object
\* of line 714, which no line of read_pfm closes, is still open
Raised(what) == [NoPfm EXCEPT !.status = what, !.handle = "open"]

\* read_pfm(f), from the open of line 714 to the exit.  The function has
\* no close() and no with block: on a raise the file object stays open,
\* on a return it is open unless the interpreter's garbage collector has
\* already closed it (h).
ReadPfmResult(f, h) ==
    LET header == RStrip(f.magic)
        dim_match == DimSearch(f.dims \o <<"\n">>)
        width == ParseInt(dim_match.g1)
        height == ParseInt(dim_match.g2)
        parsed == ParseFloat(f.scale)
        endian == IF IsNegative(parsed) THEN "<" ELSE ">"
        scale == IF IsNegative(parsed) THEN [parsed EXCEPT !.neg = FALSE]
                 ELSE parsed
        color == header = <<"P", "F">>
        chans == IF color THEN 3 ELSE 1
        data == FromFile(f, endian)
    IN  IF ~IsAscii(header) THEN Raised("UnicodeDecodeError")
        ELSE IF header # <<"P", "F">> /\ header # <<"P", "f">>
        THEN Raised("Not a PFM file.")
        ELSE IF ~IsAscii(f.dims) THEN Raised("UnicodeDecodeError")
        ELSE IF ~dim_match.found THEN Raised("Malformed PFM header.")
        ELSE IF ~parsed.ok THEN Raised("ValueError: float")
        ELSE IF Len(data) # height * width * chans
        THEN Raised("ValueError: reshape")
        ELSE [status |-> "returned",
              handle |-> h,
              shape |-> Shape(color, height, width),
              rows |-> FlipReshape(data, height, width, chans),
              scale |-> scale]

read_pfm ==
    /\ \E h \in {"open", "closed"} : pfm' = ReadPfmResult(file, h)
    /\ UNCHANGED <<file, arr, args, outcome, report, loc, arr0, startVars, cfgVars>>

\* the files read_pfm is tried on
MagicLines ==
    {<<"P", "f">>, <<"P", "F">>, <<"P", "f", " ">>, <<"P", "f", "x">>,
     <<"p", "f">>, <<>>, <<Byte80>>}
DimLines ==
    {<<"1", " ", "1">>, <<"1", " ", "2">>, <<"2", " ", "1">>,
     <<"2", " ", "2">>,
     <<"0", " ", "1">>, <<"1", "2">>, <<"1", " ", " ", "1">>,
     <<"x", "2", "\t", "1", "x">>, <<Byte80>>}
ScaleLines ==
    {<<"-", "1", ".", "0">>, <<"1", ".", "0">>, <<"-", "0", ".", "5", " ">>,
     <<"2">>, <<"-", "0">>, <<"x">>, <<>>}
\* float32 1.0 in little-endian order and float32 7.0 in big-endian order
WordVals == {<<0, 0, 128, 63>>, <<64, 224, 0, 0>>}

RECURSIVE SeqsUpTo(_, _)
SeqsUpTo(S, n) ==
    IF n = 0 THEN {<<>>}
    ELSE LET shorter == SeqsUpTo(S, n - 1)
         IN  shorter \cup {Append(q, x) : q \in {t \in shorter : Len(t) = n - 1}, x \in S}

Files ==
    [magic : MagicLines, dims : DimLines, scale : ScaleLines,
     words : SeqsUpTo(WordVals, MaxWords), extra : 0..3]

---------------------------------------------------------------------------
(* Start-up: the command line and the checks of lines 15-66 *)

(* The command line is the tokens of the -p/--dataset option, the tokens   *)
(* of the -e/--evaluate option and the presence of --download.  -p is      *)
(* declared with nargs="?" and no const (line 15): given without a value   *)
(* it leaves args.dataset at None, as when it is absent.                   *)

None == "<None>"

\* datasetDefault (line 13)
datasetDefault == "models/dataset"

Paths == {datasetDefault, "data", "eval"}

ArgvSamples ==
    [dataset : {<<>>, <<"-p">>, <<"-p", "">>, <<"-p", "data">>},
     evaluate : {<<>>, <<"-e">>, <<"-e", "">>, <<"-e", "eval">>},
     download : BOOLEAN]

NoArgv == [dataset |-> <<>>, evaluate |-> <<>>, download |-> FALSE]
NoCliArgs == [dataset |-> None, evaluate |-> None, download |-> FALSE]

\* the value argparse stores for an option of default None
OptionValue(tokens) == IF Len(tokens) = 2 THEN tokens[2] ELSE None

\* Path(p).exists(): Path("") is the current directory
Exists(p, f) == p = "" \/ p \in f

\* a slip: the check of line 22 left out
BothGivenUnchecked(a) == FALSE

\* line 22
BothGiven(a) == a.evaluate # None /\ a.dataset # None

\* line 29
DownloadWithoutEvaluate(a) == a.download /\ a.evaluate = None

\* line 33
DatasetMissing(a, f) == a.evaluate = None /\ ~Exists(a.dataset, f)

\* line 37
EvaluateMissing(a, f) ==
    a.evaluate # None /\ ~a.download /\ ~Exists(a.evaluate, f)

\* line 41
EvaluateToCreate(a, f) ==
    a.evaluate # None /\ a.download /\ ~Exists(a.evaluate, f)

Raise(what) ==
    /\ raised' = what
    /\ pc' = "stopped"

\* line 20: -e without its value ends the script in the parser
parse_args ==
    /\ pc = "parse_args"
    /\ IF argv.evaluate = <<"-e">>
       THEN /\ Raise("SystemExit")
            /\ UNCHANGED cli_args
       ELSE /\ cli_args' = [dataset |-> OptionValue(argv.dataset),
                            evaluate |-> OptionValue(argv.evaluate),
                            download |-> argv.download]
            /\ pc' = "check_both"
            /\ UNCHANGED raised
    /\ UNCHANGED <<argv, fs, evaluation_mode, evalVars, pfmVars, cfgVars>>

\* lines 22-24
check_both ==
    /\ pc = "check_both"
    /\ IF BothGiven(cli_args) THEN Raise("ValueError")
       ELSE pc' = "set_mode" /\ UNCHANGED raised
    /\ UNCHANGED <<argv, fs, cli_args, evaluation_mode, evalVars, pfmVars, cfgVars>>

\* lines 26-27
set_mode ==
    /\ pc = "set_mode"
    /\ evaluation_mode' = (cli_args.evaluate # None)
    /\ cli_args' = [cli_args EXCEPT !.dataset =
                        IF cli_args.dataset \in {None, ""} THEN datasetDefault
                        ELSE cli_args.dataset]
    /\ pc' = "check_download"
    /\ UNCHANGED <<argv, fs, raised, evalVars, pfmVars, cfgVars>>

\* lines 29-31
check_download ==
    /\ pc = "check_download"
    /\ IF DownloadWithoutEvaluate(cli_args) THEN Raise("ValueError")
       ELSE pc' = "check_dataset" /\ UNCHANGED raised
    /\ UNCHANGED <<argv, fs, cli_args, evaluation_mode, evalVars, pfmVars, cfgVars>>

\* lines 33-35
check_dataset ==
    /\ pc = "check_dataset"
    /\ IF DatasetMissing(cli_args, fs) THEN Raise("FileNotFoundError")
       ELSE pc' = "check_evaluate" /\ UNCHANGED raised
    /\ UNCHANGED <<argv, fs, cli_args, evaluation_mode, evalVars, pfmVars, cfgVars>>

\* lines 37-39
check_evaluate ==
    /\ pc = "check_evaluate"
    /\ IF EvaluateMissing(cli_args, fs) THEN Raise("FileNotFoundError")
       ELSE pc' = "makedirs" /\ UNCHANGED raised
    /\ UNCHANGED <<argv, fs, cli_args, evaluation_mode, evalVars, pfmVars, cfgVars>>

\* lines 41-42, the directory being one that can be created
makedirs ==
    /\ pc = "makedirs"
    /\ fs' = IF EvaluateToCreate(cli_args, fs) THEN fs \cup {cli_args.evaluate}
             ELSE fs
    /\ pc' = "download"
    /\ UNCHANGED <<argv, cli_args, evaluation_mode, raised, evalVars, pfmVars, cfgVars>>

\* lines 63-66: the download over the network ends or raises; line 66 is
\* not reached, as --download without --evaluate stopped at line 31
download ==
    /\ pc = "download"
    /\ IF cli_args.download
       THEN \/ pc' = "create_pipeline" /\ UNCHANGED raised
            \/ Raise("ConnectionError")
       ELSE pc' = "create_pipeline" /\ UNCHANGED raised
    /\ UNCHANGED <<argv, fs, cli_args, evaluation_mode, evalVars, pfmVars, cfgVars>>

\* line 546: pipeline = dai.Pipeline()
create_pipeline ==
    /\ pc = "create_pipeline"
    /\ pc' = "create_device"
    /\ UNCHANGED <<argv, fs, cli_args, evaluation_mode, raised, evalVars, pfmVars, cfgVars>>

\* line 857: with dai.Device(pipeline) as device
create_device ==
    /\ pc = "create_device"
    /\ pc' = "main_loop"
    /\ UNCHANGED <<argv, fs, cli_args, evaluation_mode, raised, evalVars, pfmVars, cfgVars>>

\* the script as it is before and while the functions of the other
\* specifications are exercised
IdleStart ==
    /\ argv = NoArgv
    /\ fs = {}
    /\ pc = "parse_args"
    /\ cli_args = NoCliArgs
    /\ evaluation_mode = FALSE
    /\ raised = "none"

---------------------------------------------------------------------------
(* StereoConfigHandler: the run-time configuration, lines 68-529 *)

(* The configuration is the fields of dai.StereoDepthConfig that the       *)
(* handler writes, under their leaf names.  kernelMask, a uint64, is kept  *)
(* as the set of its 1 bits, bit 0 the lowest.  The fields that hold       *)
(* value / 100. are kept as the fraction Num(value, 100).                  *)

\* the settings lists of handleKeypress, in their order
medianSettings == <<"MEDIAN_OFF", "KERNEL_3x3", "KERNEL_5x5", "KERNEL_7x7">>
temporalSettings ==
    <<"PERSISTENCY_OFF", "VALID_8_OUT_OF_8", "VALID_2_IN_LAST_3",
      "VALID_2_IN_LAST_4", "VALID_2_OUT_OF_8", "VALID_1_IN_LAST_2",
      "VALID_1_IN_LAST_5", "VALID_1_IN_LAST_8", "PERSISTENCY_INDEFINITELY">>
decimationSettings == <<"PIXEL_SKIPPING", "NON_ZERO_MEDIAN", "NON_ZERO_MEAN">>
alignmentSettings == <<"RECTIFIED_RIGHT", "RECTIFIED_LEFT", "CENTER">>
censusSettings == <<"AUTO", "KERNEL_5x5", "KERNEL_7x7", "KERNEL_7x9">>
dispRangeSettings == <<"DISPARITY_64", "DISPARITY_96">>

\* a slip: the index is not taken modulo the length, and the last option
\* is kept
CycleNextStuck(settings, current) ==
    LET i == CHOOSE k \in 1..Len(settings) : settings[k] = current
    IN  IF i = Len(settings) THEN settings[i] ELSE settings[i + 1]

\* settings[(settings.index(current) + 1) % len(settings)]
CycleNext(settings, current) ==
    LET i == CHOOSE k \in 1..Len(settings) : settings[k] = current
    IN  settings[(i % Len(settings)) + 1]

HexDigits ==
    <<"0", "1", "2", "3", "4", "5", "6", "7", "8", "9",
      "A", "B", "C", "D", "E", "F">>
HexVal(c) == (CHOOSE i \in 1..16 : HexDigits[i] = c) - 1

\* 2 to the power b, for the bits of one hexadecimal digit
NibbleWeight == <<1, 2, 4, 8>>

\* the 1 bits of the number a hexadecimal literal writes
HexBits(lit) ==
    {4 * (Len(lit) - p[1]) + p[2] :
        p \in {q \in (1..Len(lit)) \X (0..3) :
                  (HexVal(lit[q[1]]) \div NibbleWeight[q[2] + 1]) % 2 = 1}}

\* censusGridSize and censusDefaultMask (lines 409-410, 521, 524): the
\* lists are indexed by the kernel size, KERNEL_5x5 first
censusGridSize == <<<<5, 5>>, <<7, 7>>, <<7, 9>>>>

\* a slip: the mask of 7x7 is written for 7x9 too
censusDefaultMaskRepeated ==
    <<HexBits(<<"A", "8", "2", "4", "1", "5">>),
      HexBits(<<"A", "A", "0", "2", "A", "8", "1", "5", "4", "0", "5", "5">>),
      HexBits(<<"A", "A", "0", "2", "A", "8", "1", "5", "4", "0", "5", "5">>)>>

censusDefaultMask ==
    <<HexBits(<<"A", "8", "2", "4", "1", "5">>),
      HexBits(<<"A", "A", "0", "2", "A", "8", "1", "5", "4", "0", "5", "5">>),
      HexBits(<<"2", "A", "A", "0", "0", "A", "A", "8", "0", "5", "5", "4",
                "0", "1", "5", "5">>)>>
KernelIndex(kernelSize) ==
    (CHOOSE k \in 2..4 : censusSettings[k] = kernelSize) - 1

\* gridHeight and gridWidth (lines 91-92)
gridHeight == 50
gridWidth == 50

(* A CensusMaskHandler is its gridSize, the cells <<row, col>> whose       *)
(* "state" is True, its changed flag and whether its window is open.  The  *)
(* class attribute censusMaskHandler is <<>> for None or <<h>>.            *)

\* CensusMaskHandler.__init__ (lines 113-146): every cell False, and
\* fillRectangle, called for every cell, has set changed
NewCensusMaskHandler(gridSize) ==
    [gridSize |-> gridSize, cells |-> {}, changed |-> TRUE, window |-> TRUE]

\* a slip: the bit of a cell is counted with the rows of the grid
getMaskByRows(h) ==
    {cell[1] * h.gridSize[1] + cell[2] : cell \in h.cells}

\* getMask (lines 148-156)
getMask(h) ==
    {cell[1] * h.gridSize[2] + cell[2] : cell \in h.cells}

\* setMask (lines 158-168): the bits past the grid are dropped, and
\* fillRectangle sets changed
setMask(h, mask) ==
    [h EXCEPT
        !.cells = {cell \in (0..(h.gridSize[1] - 1)) \X (0..(h.gridSize[2] - 1)) :
                      (cell[1] * h.gridSize[2] + cell[2]) \in mask},
        !.changed = TRUE]

\* a slip: the cell under the press is switched on, whatever it was
clickCallbackOn(h, x, y) ==
    LET col == (x * h.gridSize[2]) \div (gridWidth * h.gridSize[2])
        row == (y * h.gridSize[1]) \div (gridHeight * h.gridSize[1])
    IN  IF row >= h.gridSize[1] \/ col >= h.gridSize[2] THEN h
        ELSE [h EXCEPT !.cells = h.cells \cup {<<row, col>>},
                       !.changed = TRUE]

\* clickCallback (lines 105-110) on a left button press at (x, y): a
\* press under the grid, in the text of the window, indexes a row past the
\* last one and the IndexError leaves the handler as it was
clickCallback(h, x, y) ==
    LET width == gridWidth * h.gridSize[2]
        height == gridHeight * h.gridSize[1]
        col == (x * h.gridSize[2]) \div width
        row == (y * h.gridSize[1]) \div height
    IN  IF row >= h.gridSize[1] \/ col >= h.gridSize[2] THEN h
        ELSE [h EXCEPT
                 !.cells = IF <<row, col>> \in h.cells
                           THEN h.cells \ {<<row, col>>}
                           ELSE h.cells \cup {<<row, col>>},
                 !.changed = TRUE]

\* the keys cv2.waitKey returns: the keys handleKeypress and the main loop
\* know, one other key, and "none" for -1, no key pressed
HandledKeys ==
    {"m", "w", "t", "s", "r", "n", "a", "c", "d", "f", "v", "1", "2", "3"}
Keys == HandledKeys \cup {"q", "[", "]", "x", "none"}

\* a slip: the field is switched on, whatever it was
ToggleOn(c, field) == [c EXCEPT ![field] = TRUE]

Toggle(c, field) == [c EXCEPT ![field] = ~c[field]]
Cycle(c, field, settings) ==
    [c EXCEPT ![field] = CycleNext(settings, c[field])]

\* the branches of handleKeypress on the key (lines 345-452), on the
\* state st of the class: config, newConfig, censusMaskHandler, and the
\* exception raised, if any.  Under 'c' towards AUTO, destroyWindow is
\* called on the handler, which raises AttributeError when it is None
KeyBranch(key, st) ==
    LET c == st.config
        nextCensus == CycleNext(censusSettings, c.kernelSize)
        set(c2) == [st EXCEPT !.config = c2, !.newConfig = TRUE]
    IN  CASE key = "m" -> set(Cycle(c, "median", medianSettings))
          [] key = "w" -> set(Toggle(c, "spatialFilter_enable"))
          [] key = "t" -> set(Toggle(c, "temporalFilter_enable"))
          [] key = "s" -> set(Toggle(c, "speckleFilter_enable"))
          [] key = "r" -> set(Cycle(c, "persistencyMode", temporalSettings))
          [] key = "n" -> set(Cycle(c, "decimationMode", decimationSettings))
          [] key = "a" -> set(Cycle(c, "depthAlign", alignmentSettings))
          [] key = "c" ->
                IF nextCensus # "AUTO"
                THEN [config |-> [c EXCEPT !.kernelSize = nextCensus],
                      newConfig |-> TRUE,
                      censusMaskHandler |->
                          <<setMask(NewCensusMaskHandler(
                                        censusGridSize[KernelIndex(nextCensus)]),
                                    censusDefaultMask[KernelIndex(nextCensus)])>>,
                      error |-> "none"]
                ELSE IF st.censusMaskHandler = <<>>
                THEN [config |-> [c EXCEPT !.kernelMask = {}],
                      newConfig |-> TRUE,
                      censusMaskHandler |-> <<>>,
                      error |-> "AttributeError"]
                ELSE [config |-> [c EXCEPT !.kernelMask = {},
                                           !.kernelSize = nextCensus],
                      newConfig |-> TRUE,
                      censusMaskHandler |->
                          <<[st.censusMaskHandler[1] EXCEPT !.window = FALSE]>>,
                      error |-> "none"]
          [] key = "d" -> set(Cycle(c, "disparityWidth", dispRangeSettings))
          [] key = "f" -> set(Toggle(c, "enableCompanding"))
          [] key = "v" -> set(Toggle(c, "enableMeanMode"))
          [] key = "1" -> set(Toggle(c, "enableLeftRightCheck"))
          [] key = "2" -> set(Toggle(c, "enableSubpixel"))
          [] key = "3" -> set(Toggle(c, "enableExtended"))
          [] OTHER -> st

\* lines 454-459: the mask of a changed handler goes to the config, and
\* isChanged clears the flag
CensusSync(st) ==
    IF st.censusMaskHandler # <<>> /\ st.censusMaskHandler[1].changed
    THEN [config |-> [st.config EXCEPT
                         !.kernelMask = getMask(st.censusMaskHandler[1])],
          newConfig |-> TRUE,
          censusMaskHandler |->
              <<[st.censusMaskHandler[1] EXCEPT !.changed = FALSE]>>,
          error |-> "none"]
    ELSE st

\* a slip: the flag left set after the message is sent
sendConfigKeepFlag(st) ==
    IF st.newConfig
    THEN [st |-> st, sent |-> <<st.config>>]
    ELSE [st |-> st, sent |-> <<>>]

\* sendConfig (lines 463-468): the state after it and the messages it
\* sent, each message the config it was set from
sendConfig(st) ==
    IF st.newConfig
    THEN [st |-> [st EXCEPT !.newConfig = FALSE], sent |-> <<st.config>>]
    ELSE [st |-> st, sent |-> <<>>]

\* handleKeypress (lines 344-461): the state it leaves, the messages it
\* sent, and newConfig and config as they are when sendConfig is entered;
\* an exception of the key's branch ends it there
handleKeypress(key, st) ==
    LET branched == KeyBranch(key, st)
        synced == CensusSync(branched)
        r == sendConfig(synced)
    IN  IF branched.error # "none"
        THEN [st |-> branched, sent |-> <<>>, atSend |-> FALSE,
              cfgAtSend |-> branched.config]
        ELSE [st |-> r.st, sent |-> r.sent, atSend |-> synced.newConfig,
              cfgAtSend |-> synced.config]

\* the trackbar callbacks of lines 205-325 and 336-341, each with the
\* config fields it writes and what it writes there
Trackbars ==
    [trackbarSigma |-> [fields |-> {"bilateralSigmaValue"}, conv |-> "value"],
     trackbarConfidence |-> [fields |-> {"confidenceThreshold"}, conv |-> "value"],
     trackbarLrCheckThreshold |->
         [fields |-> {"leftRightCheckThreshold"}, conv |-> "value"],
     trackbarFractionalBits |->
         [fields |-> {"subpixelFractionalBits"}, conv |-> "value"],
     trackbarLineqAlpha |->
         [fields |-> {"linearEquationParameters_alpha"}, conv |-> "value"],
     trackbarLineqBeta |->
         [fields |-> {"linearEquationParameters_beta"}, conv |-> "value"],
     trackbarLineqThreshold |->
         [fields |-> {"linearEquationParameters_threshold"}, conv |-> "value"],
     trackbarCostAggregationP1 |->
         [fields |-> {"horizontalPenaltyCostP1", "verticalPenaltyCostP1"},
          conv |-> "value"],
     trackbarCostAggregationP2 |->
         [fields |-> {"horizontalPenaltyCostP2", "verticalPenaltyCostP2"},
          conv |-> "value"],
     trackbarTemporalFilterAlpha |->
         [fields |-> {"temporalFilter_alpha"}, conv |-> "value / 100."],
     trackbarTemporalFilterDelta |->
         [fields |-> {"temporalFilter_delta"}, conv |-> "value"],
     trackbarSpatialFilterAlpha |->
         [fields |-> {"spatialFilter_alpha"}, conv |-> "value / 100."],
     trackbarSpatialFilterDelta |->
         [fields |-> {"spatialFilter_delta"}, conv |-> "value"],
     trackbarSpatialFilterHoleFillingRadius |->
         [fields |-> {"holeFillingRadius"}, conv |-> "value"],
     trackbarSpatialFilterNumIterations |->
         [fields |-> {"numIterations"}, conv |-> "value"],
     trackbarThresholdMinRange |->
         [fields |-> {"thresholdFilter_minRange"}, conv |-> "value * 1000"],
     trackbarThresholdMaxRange |->
         [fields |-> {"thresholdFilter_maxRange"}, conv |-> "value * 1000"],
     trackbarSpeckleRange |-> [fields |-> {"speckleRange"}, conv |-> "value"],
     trackbarDecimationFactor |->
         [fields |-> {"decimationFactor"}, conv |-> "value"],
     trackbarDisparityShift |-> [fields |-> {"disparityShift"}, conv |-> "value"],
     trackbarInvalidateEdgePixels |->
         [fields |-> {"numInvalidateEdgePixels"}, conv |-> "value"]]

Stored(conv, value) ==
    CASE conv = "value / 100." -> Num(value, 100)
      [] conv = "value * 1000" -> value * 1000
      [] OTHER -> value

\* a slip: the callback writes the field and leaves newConfig as it is
TrackbarSilent(cb, value, st) ==
    [st EXCEPT !.config =
        [f \in DOMAIN st.config |->
            IF f \in Trackbars[cb].fields THEN Stored(Trackbars[cb].conv, value)
            ELSE st.config[f]]]

\* the body of one of these callbacks; Trackbar.set (lines 79-86) moves
\* the slider shown and leaves the class as it is
TrackbarCallback(cb, value, st) ==
    [st EXCEPT !.config =
        [f \in DOMAIN st.config |->
            IF f \in Trackbars[cb].fields THEN Stored(Trackbars[cb].conv, value)
            ELSE st.config[f]],
               !.newConfig = TRUE]

\* a slip: the alignment is not looked at
CenterAlignmentShiftAlways(value, st) ==
    [st |-> [st EXCEPT !.config.centerAlignmentShiftFactor = Num(value, 100),
                       !.newConfig = TRUE],
     set |-> <<value>>]

\* trackbarCenterAlignmentShift (lines 327-335): the class after it and
\* the positions it wrote with Trackbar.set, which for a value between
\* the ends of the slider writes the value (lines 79-86)
CenterAlignmentShift(value, st) ==
    IF st.config.depthAlign # "CENTER" THEN [st |-> st, set |-> <<>>]
    ELSE [st |-> [st EXCEPT
                     !.config.centerAlignmentShiftFactor = Num(value, 100),
                     !.newConfig = TRUE],
          set |-> <<value>>]

\* a slip: the grid is left for the first press of 'c' to create
StereoConfigHandlerInitNoGrid(c) ==
    [config |-> c, newConfig |-> FALSE, censusMaskHandler |-> <<>>,
     error |-> "none"]

\* StereoConfigHandler.__init__ (lines 517-529): the class after it
StereoConfigHandlerInit(c) ==
    [config |-> c,
     newConfig |-> FALSE,
     censusMaskHandler |->
         IF c.kernelSize # "AUTO"
         THEN <<setMask(NewCensusMaskHandler(censusGridSize[KernelIndex(c.kernelSize)]),
                        IF c.kernelMask = {}
                        THEN censusDefaultMask[KernelIndex(c.kernelSize)]
                        ELSE c.kernelMask)>>
         ELSE <<>>,
     error |-> "none"]

\* the class attributes as one record, and their assignment from one
ClassState ==
    [config |-> config, newConfig |-> newConfig,
     censusMaskHandler |-> censusMaskHandler, error |-> "none"]
SetClass(st) ==
    /\ config' = st.config
    /\ newConfig' = st.newConfig
    /\ censusMaskHandler' = st.censusMaskHandler

NoCall(c) ==
    [called |-> FALSE, key |-> "none", before |-> c, newBefore |-> FALSE,
     handlerBefore |-> <<>>, atSend |-> FALSE, cfgAtSend |-> c,
     sent |-> <<>>, returned |-> FALSE, error |-> "none"]

NoMove(c) ==
    [called |-> FALSE, cb |-> "none", value |-> 0, before |-> c,
     newBefore |-> FALSE, after |-> c, newAfter |-> FALSE, set |-> <<>>]

\* StereoConfigHandler(stereo.initialConfig.get()) (line 629); before it
\* config holds the argument of the call
construct_handler ==
    /\ loop = "start"
    /\ SetClass(StereoConfigHandlerInit(config))
    /\ loop' = "running"
    /\ UNCHANGED <<deviceConfig, last, events, moved, clicked,
                   evalVars, pfmVars, startVars>>

\* no click yet; of a click, next tells whether handleKeypress was
\* called since: not yet ("none"), once ("made"), more than once ("past")
NoClick ==
    [called |-> FALSE, x |-> 0, y |-> 0, before |-> <<>>, after |-> <<>>,
     next |-> "none"]

(* The callbacks run inside cv2.waitKey (line 971), which dispatches the   *)
(* window events that are due before it returns the key: each is an action *)
(* of its own, taken between two iterations of the main loop.              *)

\* one of the trackbar callbacks of lines 205-325 and 336-341, at a
\* slider position
trackbar(cb, value) ==
    /\ loop = "running"
    /\ events < MaxEvents
    /\ events' = events + 1
    /\ \E st \in {TrackbarCallback(cb, value, ClassState)} :
           /\ SetClass(st)
           /\ moved' = [called |-> TRUE, cb |-> cb, value |-> value,
                        before |-> config, newBefore |-> newConfig,
                        after |-> st.config, newAfter |-> st.newConfig,
                        set |-> <<value>>]
    /\ UNCHANGED <<deviceConfig, last, loop, clicked,
                   evalVars, pfmVars, startVars>>

\* trackbarCenterAlignmentShift (lines 327-335)
trackbarCenterAlignmentShift(value) ==
    /\ loop = "running"
    /\ events < MaxEvents
    /\ events' = events + 1
    /\ \E r \in {CenterAlignmentShift(value, ClassState)} :
           /\ SetClass(r.st)
           /\ moved' = [called |-> TRUE, cb |-> "trackbarCenterAlignmentShift",
                        value |-> value,
                        before |-> config, newBefore |-> newConfig,
                        after |-> r.st.config, newAfter |-> r.st.newConfig,
                        set |-> r.set]
    /\ UNCHANGED <<deviceConfig, last, loop, clicked,
                   evalVars, pfmVars, startVars>>

\* a left button press in the open "Census mask" window (lines 105-110)
click(x, y) ==
    /\ loop = "running"
    /\ events < MaxEvents
    /\ censusMaskHandler # <<>>
    /\ censusMaskHandler[1].window
    /\ events' = events + 1
    /\ censusMaskHandler' = <<clickCallback(censusMaskHandler[1], x, y)>>
    /\ clicked' = [called |-> TRUE, x |-> x, y |-> y,
                   before |-> censusMaskHandler,
                   after |-> <<clickCallback(censusMaskHandler[1], x, y)>>,
                   next |-> "none"]
    /\ UNCHANGED <<config, newConfig, deviceConfig, last, loop, moved,
                   evalVars, pfmVars, startVars>>

\* the end of one iteration of the main loop (lines 971-979) on the key
\* cv2.waitKey returned: 'q' leaves the loop, any other key goes to
\* handleKeypress; the device takes the config of the message sent
main_loop(key) ==
    /\ loop = "running"
    /\ key = "none" \/ events < MaxEvents
    /\ events' = IF key = "none" THEN events ELSE events + 1
    /\ IF key = "q"
       THEN /\ loop' = "break"
            /\ UNCHANGED <<config, newConfig, censusMaskHandler, deviceConfig,
                           last, clicked>>
       ELSE \E r \in {handleKeypress(key, ClassState)} :
                /\ SetClass(r.st)
                /\ deviceConfig' =
                       IF r.sent # <<>> THEN r.sent[Len(r.sent)] ELSE deviceConfig
                /\ last' = [called |-> TRUE, key |-> key, before |-> config,
                            newBefore |-> newConfig,
                            handlerBefore |-> censusMaskHandler,
                            atSend |-> r.atSend, cfgAtSend |-> r.cfgAtSend,
                            sent |-> r.sent, returned |-> r.st.newConfig,
                            error |-> r.st.error]
                /\ loop' = IF r.st.error # "none" THEN r.st.error ELSE "running"
                /\ clicked' = IF ~clicked.called THEN clicked
                              ELSE [clicked EXCEPT !.next =
                                       IF @ = "none" THEN "made" ELSE "past"]
    /\ UNCHANGED <<moved, evalVars, pfmVars, startVars>>

\* stereo.initialConfig.get() (line 629): the fields that the script
\* does not set are at a value of their type
DefaultConfig ==
    [median |-> "KERNEL_5x5",
     spatialFilter_enable |-> FALSE,
     temporalFilter_enable |-> FALSE,
     speckleFilter_enable |-> FALSE,
     persistencyMode |-> "VALID_2_IN_LAST_4",
     decimationMode |-> "PIXEL_SKIPPING",
     depthAlign |-> "RECTIFIED_RIGHT",
     kernelSize |-> "AUTO",
     kernelMask |-> {},
     disparityWidth |-> "DISPARITY_96",
     enableCompanding |-> FALSE,
     enableMeanMode |-> TRUE,
     enableLeftRightCheck |-> TRUE,
     enableSubpixel |-> TRUE,
     enableExtended |-> FALSE,
     centerAlignmentShiftFactor |-> Num(0, 100),
     bilateralSigmaValue |-> 0,
     confidenceThreshold |-> 0,
     leftRightCheckThreshold |-> 0,
     subpixelFractionalBits |-> 0,
     linearEquationParameters_alpha |-> 0,
     linearEquationParameters_beta |-> 0,
     linearEquationParameters_threshold |-> 0,
     horizontalPenaltyCostP1 |-> 0,
     verticalPenaltyCostP1 |-> 0,
     horizontalPenaltyCostP2 |-> 0,
     verticalPenaltyCostP2 |-> 0,
     temporalFilter_alpha |-> Num(0, 100),
     temporalFilter_delta |-> 0,
     spatialFilter_alpha |-> Num(0, 100),
     spatialFilter_delta |-> 0,
     holeFillingRadius |-> 0,
     numIterations |-> 0,
     thresholdFilter_minRange |-> 0,
     thresholdFilter_maxRange |-> 0,
     speckleRange |-> 0,
     decimationFactor |-> 0,
     disparityShift |-> 0,
     numInvalidateEdgePixels |-> 0]

\* the census settings and the alignments the handler is constructed on
InitialCensus ==
    {<<"AUTO", {}>>, <<"KERNEL_5x5", {}>>, <<"KERNEL_5x5", {0, 24, 25}>>,
     <<"KERNEL_7x9", {}>>}
InitialConfigs ==
    {[DefaultConfig EXCEPT !.kernelSize = k[1], !.kernelMask = k[2]] :
        k \in InitialCensus}
    \cup {[DefaultConfig EXCEPT !.depthAlign = "CENTER"]}

\* the callbacks of the table that are run: one for each kind of value
\* written, and one that writes two fields
SampledTrackbars ==
    {"trackbarSigma", "trackbarCostAggregationP1",
     "trackbarTemporalFilterAlpha", "trackbarThresholdMinRange"}

\* the slider positions and the points of the mask window that are tried
SliderValues == {4}
ClickPoints == {<<0, 0>>, <<60, 10>>, <<10, 260>>}

IdleCfg ==
    /\ config = DefaultConfig
    /\ newConfig = FALSE
    /\ censusMaskHandler = <<>>
    /\ deviceConfig = DefaultConfig
    /\ last = NoCall(DefaultConfig)
    /\ loop = "running"
    /\ events = 0
    /\ moved = NoMove(DefaultConfig)
    /\ clicked = NoClick

---------------------------------------------------------------------------
(* The evaluator's callers *)

Refs == {1, 2}

\* the shapes (height, width) of the arrays: one row of every width up to
\* MaxPixels, and one column of two pixels, of the size of <<1, 2>>
Shapes == {<<1, w>> : w \in 1..MaxPixels} \cup {<<2, 1>>}

Arrays ==
    UNION {[shape : {s}, data : [1..(s[1] * s[2]) -> PixelVals \cup {Inf}]] :
           s \in Shapes}

InitEval ==
    /\ arr \in [Refs -> Arrays]
    /\ args = [gt |-> 1, oak |-> 1]
    /\ outcome = "none"
    /\ report = NoReport
    /\ loc = NoLoc
    /\ arr0 = arr
    /\ file = NoFile
    /\ pfm = NoPfm
    /\ IdleStart
    /\ IdleCfg

\* the caller passes array 1 as the ground truth, and as the computed map
\* array 2 (line 968) or array 1 again
NextEval ==
    \E o \in Refs : calculate_err_measures(1, o)

SpecEval == InitEval /\ [][NextEval]_vars


InitPfm ==
    /\ file \in Files
    /\ pfm = NoPfm
    /\ arr = [r \in Refs |-> [shape |-> <<1, 1>>, data |-> <<0>>]]
    /\ args = [gt |-> 1, oak |-> 1]
    /\ outcome = "none"
    /\ report = NoReport
    /\ loc = NoLoc
    /\ arr0 = arr
    /\ IdleStart
    /\ IdleCfg

NextPfm == read_pfm

SpecPfm == InitPfm /\ [][NextPfm]_vars

IdleEval ==
    /\ arr = [r \in Refs |-> [shape |-> <<1, 1>>, data |-> <<0>>]]
    /\ args = [gt |-> 1, oak |-> 1]
    /\ outcome = "none"
    /\ report = NoReport
    /\ loc = NoLoc
    /\ arr0 = arr

IdlePfm ==
    /\ file = NoFile
    /\ pfm = NoPfm

InitStart ==
    /\ argv \in ArgvSamples
    /\ fs \in SUBSET Paths
    /\ pc = "parse_args"
    /\ cli_args = NoCliArgs
    /\ evaluation_mode = FALSE
    /\ raised = "none"
    /\ IdleEval
    /\ IdlePfm
    /\ IdleCfg

NextStart ==
    \/ parse_args
    \/ check_both
    \/ set_mode
    \/ check_download
    \/ check_dataset
    \/ check_evaluate
    \/ makedirs
    \/ download
    \/ create_pipeline
    \/ create_device

SpecStart == InitStart /\ [][NextStart]_vars

\* the class after lines 629-630, as the main loop is entered
InitCfg ==
    /\ \E c \in InitialConfigs :
        /\ config = c
        /\ newConfig = StereoConfigHandlerInit(c).newConfig
        /\ censusMaskHandler = StereoConfigHandlerInit(c).censusMaskHandler
        /\ deviceConfig = c
        /\ last = NoCall(c)
        /\ moved = NoMove(c)
    /\ clicked = NoClick
    /\ loop = "running"
    /\ events = 0
    /\ IdleEval
    /\ IdlePfm
    /\ IdleStart

NextCfg ==
    \/ \E cb \in SampledTrackbars, value \in SliderValues : trackbar(cb, value)
    \/ \E value \in SliderValues : trackbarCenterAlignmentShift(value)
    \/ \E p \in ClickPoints : click(p[1], p[2])
    \/ \E key \in Keys : main_loop(key)

SpecCfg == InitCfg /\ [][NextCfg]_vars

\* the main loop keeps iterating: an iteration in which no key is
\* pressed comes, unless another iteration comes before it
SpecCfgFair == SpecCfg /\ WF_vars(main_loop("none"))

\* the bits of the kernel masks the handler is constructed on: the ends
\* of the word, and the bits around the ends of the three grids
MaskBits == {0, 24, 25, 48, 49, 62, 63}

\* before line 629, on a config with any census kernel size and mask
InitMask ==
    /\ \E k \in {censusSettings[i] : i \in 1..Len(censusSettings)},
          m \in SUBSET MaskBits :
        \E c \in {[DefaultConfig EXCEPT !.kernelSize = k, !.kernelMask = m]} :
            /\ config = c
            /\ deviceConfig = c
            /\ last = NoCall(c)
            /\ moved = NoMove(c)
    /\ clicked = NoClick
    /\ newConfig = FALSE
    /\ censusMaskHandler = <<>>
    /\ loop = "start"
    /\ events = 0
    /\ IdleEval
    /\ IdlePfm
    /\ IdleStart

\* the handler is constructed and the main loop iterates with no key
\* pressed
NextMask ==
    \/ construct_handler
    \/ \E key \in {"none"} : main_loop(key)

SpecMask == InitMask /\ [][NextMask]_vars

---------------------------------------------------------------------------
(* What the evaluator is to compute, stated on the arrays as they were     *)
(* when the call was entered                                               *)

Gt0 == arr0[args.gt].data
Oak0 == arr0[args.oak].data
Px0 == 1..Len(Gt0)

Called == outcome # "none"
Returned == outcome = "returned"
ShapesMatched == arr0[args.gt].shape = arr0[args.oak].shape

\* pixels with valid ground truth; n is their number
ValidGt == {i \in Px0 : Gt0[i] # Inf}
\* pixels valid in both maps
BothValid == {i \in ValidGt : Oak0[i] # Inf}
\* pixels with valid ground truth and no computed value
Missing == ValidGt \ BothValid
\* pixels valid in both maps whose values differ by more than t
WrongBy(t) == {i \in BothValid : Abs(Gt0[i] - Oak0[i]) > t}

RECURSIVE SetSum(_, _)
SetSum(S, f) ==
    IF S = {} THEN 0
    ELSE LET x == CHOOSE y \in S : TRUE IN f[x] + SetSum(S \ {x}, f)

IsNum(a) == a.k = "num"
FEq(a, b) == IsNum(a) /\ IsNum(b) /\ a.n * b.d = b.n * a.d
FGeq(a, b) == IsNum(a) /\ IsNum(b) /\ a.n * b.d >= b.n * a.d

BadField(t) ==
    CASE t = Thr05 -> "bad0.5" [] t = Thr1 -> "bad1"
      [] t = Thr2 -> "bad2" [] t = Thr4 -> "bad4"
TotalBadField(t) ==
    CASE t = Thr05 -> "total_bad0.5" [] t = Thr1 -> "total_bad1"
      [] t = Thr2 -> "total_bad2" [] t = Thr4 -> "total_bad4"
Thresholds == {Thr05, Thr1, Thr2, Thr4}

\* C1: with at least one valid ground-truth pixel, bad_t is 100 * (pixels
\* valid in both maps and wrong by more than t) / n, total_bad_t adds the
\* missing pixels to the count, and invalid is 100 * missing / n
C1_BadPercentages ==
    (Returned /\ ValidGt # {}) =>
        LET n == Cardinality(ValidGt)
            missing == Cardinality(Missing)
        IN  /\ \A t \in Thresholds :
                  /\ FEq(report[BadField(t)],
                         Num(100 * Cardinality(WrongBy(t)), n))
                  /\ FEq(report[TotalBadField(t)],
                         Num(100 * (Cardinality(WrongBy(t)) + missing), n))
            /\ FEq(report["invalid"], Num(100 * missing, n))

\* a report on a map with a missing pixel and a pixel wrong by exactly 4,
\* which counts for the thresholds 0.5, 1 and 2 and not for 4
C1_Witness ==
    /\ Returned
    /\ Missing # {}
    /\ \E i \in BothValid : Abs(Gt0[i] - Oak0[i]) = Thr4
    /\ WrongBy(Thr2) # {}
    /\ WrongBy(Thr4) = {}

\* C2: n - invalid is the number of pixels valid in both maps, and avg_err
\* and mse are the sums of |gt - computed| and of its square over those
\* pixels, divided by that number
C2_AvgOverBothValid ==
    (Called /\ ShapesMatched) =>
        LET cnt == Cardinality(BothValid)
            e == [i \in Px0 |-> Abs(Gt0[i] - Oak0[i])]
            e2 == [i \in Px0 |-> e[i] * e[i]]
        IN  /\ loc.n - loc.invalid = cnt
            /\ (Returned /\ cnt > 0) =>
                  /\ FEq(report["avg_err"], Num(SetSum(BothValid, e), Thr1 * cnt))
                  /\ FEq(report["mse"], Num(SetSum(BothValid, e2), Thr1 * Thr1 * cnt))

\* a report with a missing pixel and a pixel valid in both maps whose
\* values differ, so that n and n - invalid differ and the sums are not 0
C2_Witness ==
    /\ Returned
    /\ Missing # {}
    /\ WrongBy(0) # {}
    /\ loc.n # loc.n - loc.invalid

C5_ShapeMismatchFails ==
    (Called /\ ~ShapesMatched) =>
        /\ outcome = "AssertionError"
        /\ report = NoReport
        /\ arr = arr0

\* a failed call on two maps of the same size and different shapes, the
\* ground truth holding a +infinity the call would have zeroed
C5_Witness ==
    /\ outcome = "AssertionError"
    /\ Len(Gt0) = Len(Oak0)
    /\ \E i \in Px0 : Gt0[i] = Inf

\* C6: after a return on two distinct arrays, the ground truth is as it
\* was but 0 where it was +infinity, and the computed map is as it was on
\* the pixels valid in both maps and 0 elsewhere
C6_InPlaceZeroing ==
    (Returned /\ args.gt # args.oak) =>
        /\ arr[args.gt].shape = arr0[args.gt].shape
        /\ arr[args.oak].shape = arr0[args.oak].shape
        /\ \A i \in Px0 :
              /\ arr[args.gt].data[i] = (IF Gt0[i] = Inf THEN 0 ELSE Gt0[i])
              /\ arr[args.oak].data[i] = (IF i \in BothValid THEN Oak0[i] ELSE 0)

\* a return on two distinct arrays: one pixel valid in both maps and not
\* 0, one pixel with a computed value other than 0 and no ground truth
C6_Witness ==
    /\ Returned
    /\ args.gt # args.oak
    /\ \E i \in BothValid : Gt0[i] # 0 /\ Oak0[i] # 0
    /\ \E i \in Px0 : Gt0[i] = Inf /\ Oak0[i] \notin {0, Inf}

\* C7: with n > 0, bad0.5 >= bad1 >= bad2 >= bad4, the same for the
\* total_bad fields, and total_bad_t >= bad_t for every t
C7_ThresholdMonotone ==
    (Returned /\ ValidGt # {}) =>
        /\ FGeq(report["bad0.5"], report["bad1"])
        /\ FGeq(report["bad1"], report["bad2"])
        /\ FGeq(report["bad2"], report["bad4"])
        /\ FGeq(report["total_bad0.5"], report["total_bad1"])
        /\ FGeq(report["total_bad1"], report["total_bad2"])
        /\ FGeq(report["total_bad2"], report["total_bad4"])
        /\ \A t \in Thresholds :
              FGeq(report[TotalBadField(t)], report[BadField(t)])

\* a report whose bad0.5 is above its bad4, and whose total_bad4 is above
\* its bad4
C7_Witness ==
    /\ Returned
    /\ IsNum(report["bad0.5"])
    /\ ~FGeq(report["bad4"], report["bad0.5"])
    /\ ~FGeq(report["bad4"], report["total_bad4"])

C9_PerfectMatch ==
    (Returned /\ Gt0 = Oak0 /\ ValidGt = Px0) =>
        /\ \A t \in Thresholds : FEq(report[BadField(t)], Num(0, 1))
        /\ FEq(report["invalid"], Num(0, 1))
        /\ FEq(report["avg_err"], Num(0, 1))
        /\ FEq(report["mse"], Num(0, 1))

\* a report on one array passed as both arguments, of two pixels without
\* +infinity and with different values
C9_Witness ==
    /\ Returned
    /\ args.gt = args.oak
    /\ ValidGt = Px0
    /\ \E i, j \in Px0 : Gt0[i] # Gt0[j]

---------------------------------------------------------------------------
(* What the loader is to do *)

\* C10: on every exit of read_pfm, by return or by raise, the file handle
\* it opened has been released
C10_HandleReleased ==
    pfm.status # "none" => pfm.handle = "closed"

PfmCalled == pfm.status # "none"
PfmReturned == pfm.status = "returned"

\* the bytes of the file after its three header lines
PayloadBytes == 4 * Len(file.words) + file.extra

\* the number of float32 values of the returned array
ShapeSize ==
    IF Len(pfm.shape) = 3
    THEN pfm.shape[1] * pfm.shape[2] * pfm.shape[3]
    ELSE pfm.shape[1] * pfm.shape[2]

\* the values of one row of the returned array: width times channels
RowLen == IF Len(pfm.shape) = 3 THEN pfm.shape[2] * 3 ELSE pfm.shape[2]

\* C11: a payload whose byte count is not a multiple of 4 * width * height
\* * channels makes read_pfm fail; no array is returned from a payload
\* whose trailing bytes were dropped
C11_TruncatedFails ==
    (PfmReturned /\ ShapeSize > 0) => PayloadBytes % (4 * ShapeSize) = 0

TokenPF == <<"P", "F">>
TokenPf == <<"P", "f">>

\* the line is the token followed by nothing but white space
IsPadded(tok, line) ==
    /\ Len(line) >= Len(tok)
    /\ SubSeq(line, 1, Len(tok)) = tok
    /\ \A i \in (Len(tok) + 1)..Len(line) : line[i] \in {" ", "\t", "\n", "\r"}

MagicAccepted == IsPadded(TokenPF, file.magic) \/ IsPadded(TokenPf, file.magic)

\* C12 as stated: any first line that is not exactly PF or Pf, one with
\* extra trailing characters included, fails with 'Not a PFM file.'
C12_ExactToken ==
    (PfmCalled /\ file.magic \notin {TokenPF, TokenPf}) =>
        pfm.status = "Not a PFM file."

\* C12, amended: a first line that is PF or Pf once its trailing white
\* space is removed is accepted, PF for 3 channels and Pf for 1; any other
\* first line fails whatever the dimension line holds, with 'Not a PFM
\* file.' when it is ASCII and with a UnicodeDecodeError when it is not
C12_TokenAfterStrip ==
    PfmCalled =>
        /\ MagicAccepted => pfm.status # "Not a PFM file."
        /\ (PfmReturned /\ IsPadded(TokenPF, file.magic)) =>
               (Len(pfm.shape) = 3 /\ pfm.shape[3] = 3
                   /\ Len(file.words) = ShapeSize)
        /\ (PfmReturned /\ IsPadded(TokenPf, file.magic)) =>
               (Len(pfm.shape) = 2 /\ Len(file.words) = ShapeSize)
        /\ (~MagicAccepted /\ \A i \in 1..Len(file.magic) : file.magic[i] # Byte80)
               => pfm.status = "Not a PFM file."
        /\ (\E i \in 1..Len(file.magic) : file.magic[i] = Byte80)
               => pfm.status = "UnicodeDecodeError"

\* a file whose first line is Pf and a space, loaded to an array
C12_Witness ==
    /\ PfmReturned
    /\ file.magic = <<"P", "f", " ">>
    /\ file.words # <<>>

\* the line is two runs of digits with white space between them and
\* nothing else, and neither number is 0
TwoPositiveInts(line) ==
    \E i, j \in 1..Len(line) :
        /\ i < j - 1
        /\ \A k \in 1..i : IsDigit(line[k])
        /\ \A k \in (i + 1)..(j - 1) : line[k] \in {" ", "\t"}
        /\ \A k \in j..Len(line) : IsDigit(line[k])
        /\ \E k \in 1..i : line[k] # "0"
        /\ \E k \in j..Len(line) : line[k] # "0"

\* C13: a second line that is not two positive integers with white space
\* between them (missing, unparsable, zero-valued, malformed otherwise)
\* fails with 'Malformed PFM header.'
C13_DimsValidated ==
    (PfmCalled /\ MagicAccepted /\ ~TwoPositiveInts(file.dims)) =>
        pfm.status = "Malformed PFM header."

\* the scale line holds a number below 0: a minus sign and a digit other
\* than 0
ScaleLineNegative ==
    /\ \E i \in 1..Len(file.scale) : file.scale[i] = "-"
    /\ \E i \in 1..Len(file.scale) : IsDigit(file.scale[i]) /\ file.scale[i] # "0"

ByteWeight == <<1, 256, 65536, 16777216>>
LittleEndianBits(w) ==
    w[1] * ByteWeight[1] + w[2] * ByteWeight[2] + w[3] * ByteWeight[3]
        + w[4] * ByteWeight[4]
BigEndianBits(w) ==
    w[1] * ByteWeight[4] + w[2] * ByteWeight[3] + w[3] * ByteWeight[2]
        + w[4] * ByteWeight[1]

\* the same floats in the other byte order under the scale of the other
\* sign
MirrorFile(f) ==
    [f EXCEPT !.scale = SelectSeq(f.scale, LAMBDA c : c # "-"),
              !.words = [i \in 1..Len(f.words) |->
                            [b \in 1..4 |-> f.words[i][5 - b]]]]

\* C14: the payload is read little-endian under a negative scale and
\* big-endian under any other; a file of scale -s in little-endian loads
\* to the pixels of the file of scale +s holding the same floats in
\* big-endian; the scale returned is the magnitude, never below 0, and no
\* pixel is multiplied by it
C14_ByteOrderBySign ==
    PfmReturned =>
        /\ \A r \in 1..pfm.shape[1] : \A c \in 1..RowLen :
               pfm.rows[r][c] =
                   LET w == file.words[(pfm.shape[1] - r) * RowLen + c]
                   IN  IF ScaleLineNegative THEN LittleEndianBits(w)
                       ELSE BigEndianBits(w)
        /\ ~(pfm.scale.neg /\ pfm.scale.mant > 0)
        /\ pfm.scale.mant = ParseInt(SelectSeq(file.scale, IsDigit))
        /\ ScaleLineNegative =>
               LET m == ReadPfmResult(MirrorFile(file), pfm.handle)
               IN  /\ m.status = "returned"
                   /\ m.rows = pfm.rows
                   /\ m.shape = pfm.shape
                   /\ m.scale = pfm.scale

\* a file of scale -0.5 loaded to an array that holds a pixel
C14_Witness ==
    /\ PfmReturned
    /\ ScaleLineNegative
    /\ pfm.scale.mant = 5 /\ pfm.scale.frac = 1
    /\ file.words # <<>>

\* scan-line k of the file, counted from 0, as np.fromfile decoded it
StoredLine(k) ==
    SubSeq(FromFile(file, IF ScaleLineNegative THEN "<" ELSE ">"),
           k * RowLen + 1, (k + 1) * RowLen)

\* C15: row r of the returned array is scan-line H - 1 - r of the file,
\* the values of the row in the order of the file
C15_RowsFlipped ==
    PfmReturned =>
        \A r \in 0..(pfm.shape[1] - 1) :
            pfm.rows[r + 1] = StoredLine(pfm.shape[1] - 1 - r)

\* an array of two rows of two pixels, the rows different and the pixels
\* of the first row different
C15_Witness ==
    /\ PfmReturned
    /\ pfm.shape = <<2, 2>>
    /\ pfm.rows[1] # pfm.rows[2]
    /\ pfm.rows[1][1] # pfm.rows[1][2]

\* C16: a file of header width W and height H loads to an array of shape
\* (H, W) under Pf and (H, W, 3) under PF
C16_ShapeHeightFirst ==
    \A W, H \in 1..9 :
        (PfmReturned /\ file.dims = <<DigitChars[W + 1], " ", DigitChars[H + 1]>>)
            => /\ IsPadded(TokenPf, file.magic) => pfm.shape = <<H, W>>
               /\ IsPadded(TokenPF, file.magic) => pfm.shape = <<H, W, 3>>

\* an array loaded from a file whose width is not its height
C16_Witness ==
    /\ PfmReturned
    /\ file.dims = <<"2", " ", "1">>
    /\ pfm.shape = <<1, 2>>

---------------------------------------------------------------------------
(* What the start-up is to do *)

PipelineCreated == pc \in {"create_device", "main_loop"}

\* the path the run needs: the evaluation path under --evaluate, else the
\* dataset path, the default one when -p names none
NeededPath ==
    IF Len(argv.evaluate) = 2 THEN argv.evaluate[2]
    ELSE IF Len(argv.dataset) = 2 /\ argv.dataset[2] # "" THEN argv.dataset[2]
    ELSE datasetDefault

\* the checks as a property of the run, both being the condition under
\* which -p and -e count as given together
StartupChecks(both) ==
    /\ (both \/ (argv.download /\ argv.evaluate = <<>>)
             \/ (~argv.download /\ NeededPath # "" /\ NeededPath \notin fs))
        => /\ ~PipelineCreated
           /\ pc = "stopped" => raised # "none"
           /\ pc \notin {"makedirs", "download", "create_pipeline"}
    /\ (~both /\ Len(argv.evaluate) = 2 /\ argv.download)
        => /\ pc \in {"download", "create_pipeline", "create_device", "main_loop"}
                => Exists(argv.evaluate[2], fs)
           /\ raised \in {"none", "ConnectionError"}

\* C18 as stated: with --dataset and --evaluate both on the command line,
\* or --download without --evaluate, or the needed path missing and no
\* --download, the script stops with an error and no pipeline or device is
\* created; with --evaluate and --download the path exists once the checks
\* are over and no check has failed
C18_StartupValidation ==
    StartupChecks(argv.dataset # <<>> /\ argv.evaluate # <<>>)

\* C18, amended: the same, --dataset counting as given when it is given
\* with a value
C18_DatasetWithValue ==
    StartupChecks(Len(argv.dataset) = 2 /\ argv.evaluate # <<>>)

\* a run with a dataset path and an evaluation path, stopped at line 24
C18_Witness ==
    /\ Len(argv.dataset) = 2
    /\ Len(argv.evaluate) = 2
    /\ pc = "stopped"
    /\ raised = "ValueError"

---------------------------------------------------------------------------
(* What the configuration handler is to do *)

\* the help printed by StereoConfigHandler.__init__ (lines 500-513): the
\* key each line names and the config field of the setting it names
Help ==
    {<<"m", "median">>, <<"c", "kernelSize">>, <<"d", "disparityWidth">>,
     <<"f", "enableCompanding">>, <<"v", "enableMeanMode">>,
     <<"a", "depthAlign">>, <<"a", "decimationMode">>,
     <<"r", "persistencyMode">>, <<"w", "spatialFilter_enable">>,
     <<"t", "temporalFilter_enable">>, <<"s", "speckleFilter_enable">>,
     <<"1", "enableLeftRightCheck">>, <<"2", "enableSubpixel">>,
     <<"3", "enableExtended">>}

\* C17: pressing a key that the start-up help announces changes the
\* setting that the help names for it
C17_HelpKeysChange ==
    (last.called /\ last.error = "none") =>
        \A h \in Help :
            last.key = h[1] => config[h[2]] # last.before[h[2]]

\* C19: a call of handleKeypress sends at most one config message, one
\* exactly when newConfig is true as sendConfig is entered, the message
\* is the config of that moment, and newConfig is false as the call returns
C19_OneMessagePerCall ==
    (last.called /\ last.error = "none") =>
        /\ Len(last.sent) <= 1
        /\ Len(last.sent) = 1 <=> last.atSend
        /\ last.sent # <<>> => last.sent[1] = last.cfgAtSend
        /\ ~last.returned

\* a call on a key that changed the config and sent the changed config
C19_Witness ==
    /\ last.called
    /\ last.key \in HandledKeys
    /\ last.sent # <<>>
    /\ last.sent[1] # last.before

\* a change is not yet with the device: the config differs from the one
\* the device has, or a flag that asks for a message is set
Unsent ==
    \/ config # deviceConfig
    \/ newConfig
    \/ censusMaskHandler # <<>> /\ censusMaskHandler[1].changed

CycleKeys ==
    {<<"m", "median", medianSettings>>,
     <<"r", "persistencyMode", temporalSettings>>,
     <<"n", "decimationMode", decimationSettings>>,
     <<"a", "depthAlign", alignmentSettings>>,
     <<"c", "kernelSize", censusSettings>>,
     <<"d", "disparityWidth", dispRangeSettings>>}

\* the place of an option in a list
Place(settings, option) ==
    CHOOSE i \in 1..Len(settings) : settings[i] = option

\* the class after the key is pressed n times, one press an iteration
RECURSIVE PressTimes(_, _, _)
PressTimes(key, st, n) ==
    IF n = 0 THEN st
    ELSE PressTimes(key, handleKeypress(key, st).st, n - 1)

\* C21: a press of a cycling key moves its setting to the next option of
\* the key's list, from the last option to the first, and as many presses
\* as the list is long bring the setting back to where it was
C21_KeysCycle ==
    \A k \in CycleKeys :
        /\ (last.called /\ last.error = "none" /\ last.key = k[1]) =>
              LET i == Place(k[3], last.before[k[2]])
              IN  config[k[2]] = IF i = Len(k[3]) THEN k[3][1] ELSE k[3][i + 1]
        /\ loop = "running" =>
              PressTimes(k[1], ClassState, Len(k[3])).config[k[2]] = config[k[2]]

\* a press of 'a' on the last alignment of the list, which went to the
\* first
C21_Witness ==
    /\ last.called
    /\ last.key = "a"
    /\ last.before.depthAlign = "CENTER"
    /\ config.depthAlign = "RECTIFIED_RIGHT"

\* the toggle keys of handleKeypress, each with the config field it
\* negates
ToggleKeys ==
    {<<"w", "spatialFilter_enable">>, <<"t", "temporalFilter_enable">>,
     <<"s", "speckleFilter_enable">>, <<"f", "enableCompanding">>,
     <<"v", "enableMeanMode">>, <<"1", "enableLeftRightCheck">>,
     <<"2", "enableSubpixel">>, <<"3", "enableExtended">>}

ConfigFields == DOMAIN DefaultConfig

\* a change of the census mask waits in the handler h for the next call
\* of handleKeypress
MaskPending(h) == h # <<>> /\ h[1].changed

\* a change waits for the call: the flag is set, or the mask has changed
PendingBefore == last.newBefore \/ MaskPending(last.handlerBefore)

\* the config as the latest call of handleKeypress left it: sendConfig
\* does not write it
After == last.cfgAtSend

\* C22, as stated: a toggle key negates its field and leaves every other
\* field of the config as it was, so that two presses restore the
\* config; a key that is not handled changes no field and, with no
\* change pending, sends nothing
C22_TogglesFrame ==
    /\ (last.called /\ last.error = "none") =>
          /\ \A k \in ToggleKeys :
                last.key = k[1] =>
                    /\ After[k[2]] = ~last.before[k[2]]
                    /\ \A f \in ConfigFields \ {k[2]} : After[f] = last.before[f]
          /\ last.key \notin HandledKeys =>
                /\ After = last.before
                /\ ~PendingBefore => last.sent = <<>>
    /\ loop = "running" =>
          \A k \in ToggleKeys : PressTimes(k[1], ClassState, 2).config = config

\* the kernelMask a call of handleKeypress leaves on a key other than
\* 'c': the mask of the grid when a change of it was pending, else the
\* one the config had
MaskAfterCall ==
    IF MaskPending(last.handlerBefore)
    THEN getMask(last.handlerBefore[1])
    ELSE last.before.kernelMask

\* C22, amended: the same, but for kernelMask, which every call of
\* handleKeypress sets from the census grid when a change of the mask is
\* pending; two presses restore the config when none is
C22_TogglesFrameButMask ==
    /\ (last.called /\ last.error = "none") =>
          /\ \A k \in ToggleKeys :
                last.key = k[1] =>
                    /\ After[k[2]] = ~last.before[k[2]]
                    /\ \A f \in ConfigFields \ {k[2], "kernelMask"} :
                          After[f] = last.before[f]
                    /\ After.kernelMask = MaskAfterCall
          /\ last.key \notin HandledKeys =>
                /\ \A f \in ConfigFields \ {"kernelMask"} :
                      After[f] = last.before[f]
                /\ After.kernelMask = MaskAfterCall
                /\ ~PendingBefore => last.sent = <<>>
    /\ (loop = "running" /\ ~MaskPending(censusMaskHandler)) =>
          \A k \in ToggleKeys : PressTimes(k[1], ClassState, 2).config = config

\* a press of 'w' with a change of the census mask pending, which
\* negated the spatial filter and took the mask of the grid
C22_Witness ==
    /\ last.called
    /\ last.key = "w"
    /\ MaskPending(last.handlerBefore)
    /\ After.spatialFilter_enable # last.before.spatialFilter_enable
    /\ After.kernelMask # last.before.kernelMask

\* C23: the callback of the center alignment shift slider, when the
\* alignment is not CENTER, leaves every field of the config and newConfig
\* as they were and writes no slider position; when the alignment is
\* CENTER it sets centerAlignmentShiftFactor to value / 100 and sets
\* newConfig
C23_CenterShiftGuarded ==
    (moved.called /\ moved.cb = "trackbarCenterAlignmentShift") =>
        IF moved.before.depthAlign # "CENTER"
        THEN /\ moved.after = moved.before
             /\ moved.newAfter = moved.newBefore
             /\ moved.set = <<>>
        ELSE /\ moved.after.centerAlignmentShiftFactor = Num(moved.value, 100)
             /\ moved.newAfter

\* the slider moved to a new factor under another alignment than CENTER,
\* with no change pending
C23_Witness ==
    /\ moved.called
    /\ moved.cb = "trackbarCenterAlignmentShift"
    /\ moved.before.depthAlign # "CENTER"
    /\ moved.before.centerAlignmentShiftFactor # Num(moved.value, 100)
    /\ ~moved.newBefore

\* C24: a press of 'c' that moves the census kernel size to AUTO leaves
\* kernelMask at 0, in the config as handleKeypress returns and in the
\* message that call sends, whatever keys were pressed and cells clicked
\* before
C24_AutoMaskZero ==
    (last.called /\ last.error = "none" /\ last.key = "c"
        /\ After.kernelSize = "AUTO") =>
        /\ After.kernelMask = {}
        /\ Len(last.sent) = 1
        /\ last.sent[1].kernelMask = {}

\* the default mask of each census kernel size, by the bits that are 1:
\* 0xA82415, 0xAA02A8154055 and 0x2AA00AA805540155
DefaultMaskOf ==
    [KERNEL_5x5 |-> {0, 2, 4, 10, 13, 19, 21, 23},
     KERNEL_7x7 |-> {0, 2, 4, 6, 14, 16, 18, 20, 27, 29, 31, 33, 41, 43, 45, 47},
     KERNEL_7x9 |-> {0, 2, 4, 6, 8, 18, 20, 22, 24, 26, 35, 37, 39, 41, 43,
                     53, 55, 57, 59, 61}]

\* the rows and columns of the grid of each census kernel size
GridOf ==
    [KERNEL_5x5 |-> <<5, 5>>, KERNEL_7x7 |-> <<7, 7>>, KERNEL_7x9 |-> <<7, 9>>]

\* C25: a press of 'c' that moves the census kernel size to a size K
\* other than AUTO sends one message, with kernelSize K and kernelMask the
\* default mask of K, and leaves a grid of K's rows and columns
C25_DefaultMaskSent ==
    (last.called /\ last.error = "none" /\ last.key = "c"
        /\ last.before.kernelSize # "KERNEL_7x9") =>
        LET K == After.kernelSize
        IN  /\ K \in {"KERNEL_5x5", "KERNEL_7x7", "KERNEL_7x9"}
            /\ Len(last.sent) = 1
            /\ last.sent[1].kernelSize = K
            /\ last.sent[1].kernelMask = DefaultMaskOf[K]
            /\ censusMaskHandler # <<>>
            /\ censusMaskHandler[1].gridSize = GridOf[K]
            /\ censusMaskHandler[1].window

\* a press of 'c' on a grid of 5x5 with a cell clicked since the last
\* call, which sent the default mask of 7x7
C25_Witness ==
    /\ last.called
    /\ last.key = "c"
    /\ last.before.kernelSize = "KERNEL_5x5"
    /\ MaskPending(last.handlerBefore)
    /\ getMask(last.handlerBefore[1]) # last.before.kernelMask
    /\ last.sent # <<>>
    /\ last.sent[1].kernelSize = "KERNEL_7x7"

\* C26: there is a census mask handler whenever the census kernel size
\* is not AUTO, and no call of handleKeypress ends in a call of
\* destroyWindow, isChanged or getMask on None
C26_HandlerPresent ==
    /\ config.kernelSize # "AUTO" => censusMaskHandler # <<>>
    /\ last.error = "none"
    /\ loop \in {"running", "break"}

\* a press of 'c' on KERNEL_7x9, which called destroyWindow on the
\* handler and went to AUTO
C26_Witness ==
    /\ last.called
    /\ last.key = "c"
    /\ last.before.kernelSize = "KERNEL_7x9"
    /\ config.kernelSize = "AUTO"
    /\ censusMaskHandler # <<>>
    /\ ~censusMaskHandler[1].window

\* the bits of a grid of the handler h: one for each cell
GridBits(h) == 0..(h.gridSize[1] * h.gridSize[2] - 1)

\* C27: on a grid of rows x cols cells, getMask after setMask(m) returns
\* m when every bit of m is below rows * cols, and m without its bits at
\* rows * cols and above otherwise; after setMask(m) the cell (row, col)
\* is on exactly when bit row * cols + col of m is 1
C27_MaskRoundTrip ==
    censusMaskHandler # <<>> =>
        LET h == censusMaskHandler[1]
            cols == h.gridSize[2]
            given == IF last.called THEN last.before.kernelMask
                     ELSE config.kernelMask
        IN  /\ \A m \in SUBSET MaskBits :
                  /\ getMask(setMask(h, m)) = m \cap GridBits(h)
                  /\ m \subseteq GridBits(h) => getMask(setMask(h, m)) = m
                  /\ \A row \in 0..(h.gridSize[1] - 1), col \in 0..(cols - 1) :
                        <<row, col>> \in setMask(h, m).cells
                            <=> (row * cols + col) \in m
            /\ given # {} =>
                  /\ getMask(h) = given \cap GridBits(h)
                  /\ \A cell \in h.cells : (cell[1] * cols + cell[2]) \in given
            /\ last.called => config.kernelMask = getMask(h)

\* a grid of 7 x 9 constructed on a mask with bit 24, inside the grid,
\* and bit 63, past it, and the first call of handleKeypress made
C27_Witness ==
    /\ censusMaskHandler # <<>>
    /\ censusMaskHandler[1].gridSize = <<7, 9>>
    /\ last.called
    /\ {24, 63} \subseteq last.before.kernelMask
    /\ 24 \in config.kernelMask
    /\ 63 \notin config.kernelMask

\* the latest click was on a cell of the grid, and the cell it was on:
\* the cells are gridWidth wide and gridHeight high
ClickOnGrid ==
    /\ clicked.called
    /\ clicked.x < gridWidth * clicked.before[1].gridSize[2]
    /\ clicked.y < gridHeight * clicked.before[1].gridSize[1]
ClickedCell == <<clicked.y \div gridHeight, clicked.x \div gridWidth>>

\* the click switched the cell under it and no other cell
OneCellToggled ==
    LET was == clicked.before[1].cells
        is == clicked.after[1].cells
    IN  /\ ClickedCell \in is <=> ClickedCell \notin was
        /\ is \ {ClickedCell} = was \ {ClickedCell}
        /\ clicked.after[1].gridSize = clicked.before[1].gridSize

\* the call of handleKeypress that followed the click wrote the mask of
\* the clicked grid to the config and sent that config
MaskSentByNextCall ==
    /\ After.kernelMask = getMask(clicked.after[1])
    /\ last.sent = <<After>>

\* C28, as stated: a click on the grid switches the cell under it and no
\* other; the next call of handleKeypress writes the mask to the config
\* and sends it, and no later call finds a change of the mask pending
C28_ClickSentOnce ==
    ClickOnGrid =>
        /\ OneCellToggled
        /\ (clicked.next = "made" /\ last.error = "none") => MaskSentByNextCall
        /\ clicked.next = "past" => ~MaskPending(last.handlerBefore)

\* the key of the latest call was 'c' and moved the census kernel size to
\* a size other than AUTO, which replaces the grid
GridReplaced ==
    last.key = "c" /\ last.before.kernelSize # "KERNEL_7x9"

\* C28, amended: the same, unless the key of the next call is 'c' and
\* moves the kernel size to a size other than AUTO: the clicked grid is
\* then replaced by the default grid of the new size
C28_ClickSentUnlessReplaced ==
    ClickOnGrid =>
        /\ OneCellToggled
        /\ (clicked.next = "made" /\ last.error = "none" /\ ~GridReplaced) =>
              MaskSentByNextCall
        /\ (clicked.next = "made" /\ last.error = "none" /\ GridReplaced) =>
              last.sent[1].kernelMask = DefaultMaskOf[After.kernelSize]
        /\ clicked.next = "past" => ~MaskPending(last.handlerBefore)

\* a click that switched off a cell of the default mask, then a call of
\* handleKeypress on another key than 'c', which sent the new mask, then
\* a call that found no change of the mask pending
C28_Witness ==
    /\ ClickOnGrid
    /\ ClickedCell \in clicked.before[1].cells
    /\ ClickedCell \notin clicked.after[1].cells
    /\ clicked.next = "past"
    /\ deviceConfig.kernelMask = getMask(clicked.after[1])
    /\ ~MaskPending(last.handlerBefore)

---------------------------------------------------------------------------
(* The evaluator called again *)

\* C29: a call of calculate_err_measures on the two arrays of the call
\* before it, as that call left them, returns the report that call
\* returned
C29_SecondCallSameReport ==
    [][(outcome = "returned" /\ outcome' = "returned" /\ args' = args)
          => report' = report]_vars

=============================================================================
